---- MODULE Spec2Model ----
\* A model of package async (src/async.go): promises settled by a goroutine,
\* Await/Settled callers, the pre-settled promises and the All combinator.
EXTENDS Integers, Sequences, FiniteSets, TLC

\* ------------------------------------------------------------------ bounds
NClients == 2       \* goroutines calling Await / Settled
NFairClients == 1   \* the same, in the specification with fairness
NSettlers == 3      \* concurrent resolve/reject calls of SpecSettle
NInputs == 2        \* promises passed to All, at most
NFairInputs == 2    \* the same, in the specification of All with fairness
NFairWork == 1      \* those of them whose function returns, at most
NAwaitInputs == 1   \* the same, in the specification of All followed by a client
MaxVal == 1         \* values are 0..MaxVal

\* ------------------------------------------------------------------ values
Zero == 0                                   \* the zero value of T ("var zerov T")
Values == Zero..MaxVal
Nil == "nil"
WorkErrs == {"darn"}                        \* errors a backing function returns
Errs == WorkErrs \cup {Nil}
CtxErrs == {"Canceled", "DeadlineExceeded"} \* context.Canceled, context.DeadlineExceeded

\* result[T]{}: the zero result
ZeroResult == [value |-> Zero, err |-> Nil]
\* result[T]{value: v}
ValueResult(v) == [value |-> v, err |-> Nil]
\* result[T]{err: err}
ErrResult(e) == [value |-> Zero, err |-> e]

\* A context is "background" (Done() never ready), "active" (cancellable, not
\* yet fired) or fired with one of the two context errors.
CtxStates == {"background", "active"} \cup CtxErrs
\* ctx.Err()
CtxErr(c) == IF c \in CtxErrs THEN c ELSE Nil
\* whether <-ctx.Done() can proceed
CtxDone(c) == c \in CtxErrs

VARIABLES
    promises,   \* promise id -> syncPromise or rp struct
    fn,         \* work-backed promise id -> what its function does
    settlers,   \* settler id -> a goroutine running resolve/reject
    panicked,   \* a close of a closed channel happened
    clients,    \* client id -> a goroutine calling Await / Settled
    all,        \* the call of All: its locals and where it stands
    waiters     \* slot -> the waiter goroutine All started for it

vars == <<promises, fn, settlers, panicked, clients, all, waiters>>

\* ------------------------------------------------------------ constructors
\* &syncPromise[T]{done: make(chan struct{})}
NewSyncPromise == [type |-> "syncPromise", settled |-> 0, done |-> "open",
                   result |-> ZeroResult]
\* Resolve(v)
Resolve(v) == [type |-> "rp", result |-> ValueResult(v)]
\* Reject(err)
Reject(e) == [type |-> "rp", result |-> ErrResult(e)]

\* What a function passed to NewPromise can do: never return, or return (v, err).
FnBehaviours ==
    {[returns |-> FALSE, value |-> Zero, err |-> Nil]}
    \cup [returns : {TRUE}, value : Values, err : Errs]

SyncIds(ps) == {p \in DOMAIN ps : ps[p].type = "syncPromise"}

\* The goroutine NewPromise starts, about to call fn.
\* swapped is what CompareAndSwapInt32 returned to it: "none" before the call,
\* then "true" or "false".
NewGoroutine(p) == [p |-> p, pc |-> "fn", op |-> "none", v |-> Zero, err |-> Nil,
                    swapped |-> "none"]

\* A client: pc is where it stands; p and ctx are the arguments of its call;
\* last is how its last completed call returned ("true"/"false" from Settled; "ctx", "done" or "rp"
\* from Await), kept during the next call when that call is on the same promise;
\* ret is what Await returned.
IdleClient == [pc |-> "idle", p |-> 1, ctx |-> "background",
               last |-> "none", ret |-> ZeroResult]

\* All has not been called.
NoAll == [pc |-> "idle", ctx |-> "background", dctx |-> "live", out |-> <<>>,
          errc |-> <<>>, i |-> 0, err |-> Nil,
          ret |-> [isNil |-> TRUE, vals |-> <<>>, err |-> Nil]]

\* What the three constructors return.
Constructed ==
    {NewSyncPromise} \cup {Resolve(v) : v \in Values} \cup {Reject(e) : e \in Errs}

\* One promise, built by any of the constructors, and the clients that share it.
Init ==
    /\ promises \in {<<pr>> : pr \in Constructed}
    /\ fn \in [SyncIds(promises) -> FnBehaviours]
    /\ settlers = [p \in SyncIds(promises) |-> NewGoroutine(p)]
    /\ panicked = FALSE
    /\ clients = [c \in 1..NClients |-> IdleClient]
    /\ all = NoAll
    /\ waiters = <<>>

\* ------------------------------------------------- NewPromise's goroutine
\* v, err := fn(); if err != nil { c.reject(err) } else { c.resolve(v) }
FnReturn(s) ==
    /\ settlers[s].pc = "fn"
    /\ fn[settlers[s].p].returns
    /\ settlers' = [settlers EXCEPT ![s] =
          [@ EXCEPT !.pc = "cas",
                    !.v = fn[settlers[s].p].value,
                    !.err = fn[settlers[s].p].err,
                    !.op = IF fn[settlers[s].p].err # Nil THEN "reject" ELSE "resolve"]]
    /\ UNCHANGED <<promises, fn, panicked, clients, all, waiters>>

\* ------------------------------------------------------- resolve / reject
\* Mutant: a plain store in place of the compare-and-swap; every caller "wins".
CompareAndSwapAlwaysSwaps(old) == [flag |-> 1, swapped |-> TRUE]

\* Mutant: CompareAndSwapInt32(&s.settled, 0, 0); the flag is never raised.
CompareAndSwapKeepsZero(old) == [flag |-> old, swapped |-> (old = 0)]

\* atomic.CompareAndSwapInt32(&s.settled, 0, 1): the new flag and whether it swapped
CompareAndSwap(old) == IF old = 0 THEN [flag |-> 1, swapped |-> TRUE]
                                  ELSE [flag |-> old, swapped |-> FALSE]

SettleCAS(s) ==
    LET p == settlers[s].p
        cas == CompareAndSwap(promises[p].settled) IN
    /\ settlers[s].pc = "cas"
    /\ promises' = [promises EXCEPT ![p].settled = cas.flag]
    /\ settlers' = [settlers EXCEPT ![s].pc = IF cas.swapped THEN "store" ELSE "exit",
                                    ![s].swapped = IF cas.swapped THEN "true" ELSE "false"]
    /\ UNCHANGED <<fn, panicked, clients, all, waiters>>

\* Mutant: both of fn's results are stored, whichever call it is.
StoredResultKeepsBoth(op, v, err) == [value |-> v, err |-> err]

\* s.result = result[T]{value: v}   /   s.result = result[T]{err: err}
StoredResult(op, v, err) == IF op = "resolve" THEN ValueResult(v) ELSE ErrResult(err)

\* Mutant: the winner closes s.done where it should store the result, so the
\* signal is published before the result is written.
SettleStoreClosesFirst(s) ==
    LET p == settlers[s].p IN
    /\ settlers[s].pc = "store"
    /\ promises' = [promises EXCEPT ![p].done = "closed"]
    /\ settlers' = [settlers EXCEPT ![s].pc = "close"]
    /\ UNCHANGED <<fn, panicked, clients, all, waiters>>

SettleStore(s) ==
    LET p == settlers[s].p IN
    /\ settlers[s].pc = "store"
    /\ promises' = [promises EXCEPT ![p].result =
          StoredResult(settlers[s].op, settlers[s].v, settlers[s].err)]
    /\ settlers' = [settlers EXCEPT ![s].pc = "close"]
    /\ UNCHANGED <<fn, panicked, clients, all, waiters>>

\* Mutant: the settling call returns without closing s.done.
SettleCloseForgotten(s) ==
    /\ settlers[s].pc = "close"
    /\ settlers' = [settlers EXCEPT ![s].pc = "exit"]
    /\ UNCHANGED <<promises, fn, panicked, clients, all, waiters>>

\* Mutant: the goroutine of NewPromise has no else; after c.reject(err) has
\* returned it goes on to c.resolve(v).
SettleCloseFallsThrough(s) ==
    LET p == settlers[s].p IN
    /\ settlers[s].pc = "close"
    /\ promises' = [promises EXCEPT ![p].done = "closed"]
    /\ panicked' = (panicked \/ promises[p].done = "closed")
    /\ settlers' = [settlers EXCEPT
          ![s].pc = IF settlers[s].op = "reject" THEN "cas" ELSE "exit",
          ![s].op = IF settlers[s].op = "reject" THEN "resolve" ELSE @]
    /\ UNCHANGED <<fn, clients, all, waiters>>

\* close(s.done): closing a closed channel panics
SettleClose(s) ==
    LET p == settlers[s].p IN
    /\ settlers[s].pc = "close"
    /\ promises' = [promises EXCEPT ![p].done = "closed"]
    /\ panicked' = (panicked \/ promises[p].done = "closed")
    /\ settlers' = [settlers EXCEPT ![s].pc = "exit"]
    /\ UNCHANGED <<fn, clients, all, waiters>>

\* ------------------------------------------------------- Await / Settled
\* syncPromise.Settled: atomic.LoadInt32(&s.settled) == 1;  rp.Settled: true
Settled(pr) == IF pr.type = "rp" THEN TRUE ELSE pr.settled = 1

\* The cases of syncPromise.Await's select that can proceed.
ReadyCases(pr, ctx) ==
    (IF CtxDone(ctx) THEN {"ctx"} ELSE {}) \cup
    (IF pr.done = "closed" THEN {"done"} ELSE {})

\* case <-ctx.Done(): return zerov, ctx.Err()
AwaitCtxReturn(ctx) == [value |-> Zero, err |-> CtxErr(ctx)]
\* case <-s.done: return s.result.value, s.result.err
AwaitDoneReturn(pr) == [value |-> pr.result.value, err |-> pr.result.err]
\* Mutant: rp.Await looks at the context first, as syncPromise.Await does.
RpAwaitHonoursCtx(pr, ctx) ==
    IF CtxDone(ctx) THEN AwaitCtxReturn(ctx)
                    ELSE [value |-> pr.result.value, err |-> pr.result.err]

\* rp.Await: return r.result.value, r.result.err (the context is ignored)
RpAwait(pr, ctx) == [value |-> pr.result.value, err |-> pr.result.err]

\* A client starts a call: it picks the operation, the promise and the context.
Call(c) ==
    /\ clients[c].pc \in {"idle", "returned"}
    /\ \E p \in DOMAIN promises, op \in {"Await", "Settled"}, ctx \in CtxStates :
          /\ op = "Settled" => ctx = "background"
          /\ clients' = [clients EXCEPT ![c] =
                [pc |-> op, p |-> p, ctx |-> ctx, ret |-> ZeroResult,
                 last |-> IF p = clients[c].p THEN clients[c].last ELSE "none"]]
    /\ UNCHANGED <<promises, fn, settlers, panicked, all, waiters>>

\* The context of a call in progress fires (cancel() or the deadline).
CtxFire(c) ==
    /\ clients[c].pc = "Await"
    /\ clients[c].ctx = "active"
    /\ \E e \in CtxErrs : clients' = [clients EXCEPT ![c].ctx = e]
    /\ UNCHANGED <<promises, fn, settlers, panicked, all, waiters>>

CallSettled(c) ==
    /\ clients[c].pc = "Settled"
    /\ clients' = [clients EXCEPT ![c].pc = "returned",
          ![c].last = IF Settled(promises[clients[c].p]) THEN "true" ELSE "false"]
    /\ UNCHANGED <<promises, fn, settlers, panicked, all, waiters>>

\* syncPromise.Await: the select picks one of the cases that can proceed and
\* blocks while there is none.
AwaitSelect(c) ==
    /\ clients[c].pc = "Await"
    /\ promises[clients[c].p].type = "syncPromise"
    /\ \E case \in ReadyCases(promises[clients[c].p], clients[c].ctx) :
          clients' = [clients EXCEPT ![c].pc = case]
    /\ UNCHANGED <<promises, fn, settlers, panicked, all, waiters>>

\* Mutant: the cancelled waiter rejects the promise with the context's error.
AwaitCtxRejects(c) ==
    /\ clients[c].pc = "ctx"
    /\ clients' = [clients EXCEPT ![c].pc = "returned", ![c].last = "ctx",
                                  ![c].ret = AwaitCtxReturn(clients[c].ctx)]
    /\ promises' = [promises EXCEPT ![clients[c].p] =
          IF @.settled = 0
          THEN [@ EXCEPT !.settled = 1, !.done = "closed",
                         !.result = ErrResult(CtxErr(clients[c].ctx))]
          ELSE @]
    /\ UNCHANGED <<fn, settlers, panicked, all, waiters>>

AwaitCtx(c) ==
    /\ clients[c].pc = "ctx"
    /\ clients' = [clients EXCEPT ![c].pc = "returned", ![c].last = "ctx",
                                  ![c].ret = AwaitCtxReturn(clients[c].ctx)]
    /\ UNCHANGED <<promises, fn, settlers, panicked, all, waiters>>

AwaitDone(c) ==
    /\ clients[c].pc = "done"
    /\ clients' = [clients EXCEPT ![c].pc = "returned", ![c].last = "done",
                                  ![c].ret = AwaitDoneReturn(promises[clients[c].p])]
    /\ UNCHANGED <<promises, fn, settlers, panicked, all, waiters>>

AwaitRp(c) ==
    /\ clients[c].pc = "Await"
    /\ promises[clients[c].p].type = "rp"
    /\ clients' = [clients EXCEPT ![c].pc = "returned", ![c].last = "rp",
          ![c].ret = RpAwait(promises[clients[c].p], clients[c].ctx)]
    /\ UNCHANGED <<promises, fn, settlers, panicked, all, waiters>>

\* ---------------------------------------------------------- specification
Next ==
    \/ \E s \in DOMAIN settlers : FnReturn(s)
    \/ \E s \in DOMAIN settlers : SettleCAS(s)
    \/ \E s \in DOMAIN settlers : SettleStore(s)
    \/ \E s \in DOMAIN settlers : SettleClose(s)
    \/ \E c \in DOMAIN clients : Call(c)
    \/ \E c \in DOMAIN clients : CtxFire(c)
    \/ \E c \in DOMAIN clients : CallSettled(c)
    \/ \E c \in DOMAIN clients : AwaitSelect(c)
    \/ \E c \in DOMAIN clients : AwaitCtx(c)
    \/ \E c \in DOMAIN clients : AwaitDone(c)
    \/ \E c \in DOMAIN clients : AwaitRp(c)

Spec == Init /\ [][Next]_vars

\* The Go scheduler runs every runnable goroutine: the goroutine NewPromise
\* started goes on once fn has returned, and a caller inside Await or Settled
\* goes on when it can. Nothing makes a client call or a context fire.
GoroutineStep(s) ==
    /\ s \in DOMAIN settlers
    /\ (FnReturn(s) \/ SettleCAS(s) \/ SettleStore(s) \/ SettleClose(s))
CalleeStep(c) ==
    /\ c \in DOMAIN clients
    /\ (CallSettled(c) \/ AwaitSelect(c) \/ AwaitCtx(c) \/ AwaitDone(c) \/ AwaitRp(c))

Fairness ==
    /\ \A s \in {1} : WF_vars(GoroutineStep(s))
    /\ \A c \in 1..NFairClients : WF_vars(CalleeStep(c))

InitFair ==
    /\ promises \in {<<pr>> : pr \in Constructed}
    /\ fn \in [SyncIds(promises) -> FnBehaviours]
    /\ settlers = [p \in SyncIds(promises) |-> NewGoroutine(p)]
    /\ panicked = FALSE
    /\ clients = [c \in 1..NFairClients |-> IdleClient]
    /\ all = NoAll
    /\ waiters = <<>>

FairSpec == InitFair /\ [][Next]_vars /\ Fairness

\* ------------------------------------------- concurrent resolve / reject
\* resolve(v) and reject(err) called directly, NSettlers calls at once on one
\* pending promise, each with its own argument.
DirectCalls ==
    {[p |-> 1, pc |-> "cas", op |-> "resolve", v |-> v, err |-> Nil, swapped |-> "none"]
        : v \in Values}
    \cup
    {[p |-> 1, pc |-> "cas", op |-> "reject", v |-> Zero, err |-> e, swapped |-> "none"]
        : e \in WorkErrs}

InitSettle ==
    /\ promises = <<NewSyncPromise>>
    /\ fn = <<[returns |-> FALSE, value |-> Zero, err |-> Nil]>>
    /\ settlers \in [1..NSettlers -> DirectCalls]
    /\ panicked = FALSE
    /\ clients = <<>>
    /\ all = NoAll
    /\ waiters = <<>>

NextSettle ==
    \/ \E s \in DOMAIN settlers : SettleCAS(s)
    \/ \E s \in DOMAIN settlers : SettleStore(s)
    \/ \E s \in DOMAIN settlers : SettleClose(s)

SpecSettle == InitSettle /\ [][NextSettle]_vars

\* -------------------------------------------------------------------- All
\* The promises of the model are All's argument, in order: slot k is promise k.
\* A promise that succeeds yields its own slot number, one that fails its own
\* error, so that results cannot be confused.
RejectionErr(k) == <<"darn", "doh", "drat", "dang">>[((k - 1) % 4) + 1]

InputFns(k) ==
    {[returns |-> FALSE, value |-> Zero, err |-> Nil],
     [returns |-> TRUE, value |-> k, err |-> Nil],
     [returns |-> TRUE, value |-> Zero, err |-> RejectionErr(k)]}

\* At most max promises, built by any of the constructors, All not yet called.
InputPromises(max) ==
    /\ \E n \in 0..max :
          promises \in [1..n -> {NewSyncPromise}
                                \cup {Resolve(k) : k \in 1..n}
                                \cup {Reject(RejectionErr(k)) : k \in 1..n}]
    /\ \A k \in DOMAIN promises :
          promises[k] \in {NewSyncPromise, Resolve(k), Reject(RejectionErr(k))}
    /\ fn \in [SyncIds(promises) -> UNION {InputFns(k) : k \in 1..max}]
    /\ \A k \in DOMAIN fn : fn[k] \in InputFns(k)
    /\ settlers = [p \in SyncIds(promises) |-> NewGoroutine(p)]
    /\ panicked = FALSE
    /\ all = NoAll
    /\ waiters = <<>>

InitAll == InputPromises(NInputs) /\ clients = <<>>

\* Mutant: cancel() is called where it should be deferred.
WithCancelThenCancel(ctx) == IF CtxDone(ctx) THEN CtxErr(ctx) ELSE "Canceled"

\* The derived context after cancel(): the first cancellation stays.
Cancelled(dctx, e) == IF dctx = "live" THEN e ELSE dctx

\* ctx, cancel = context.WithCancel(ctx): a child of a fired context is born fired.
WithCancel(ctx) == IF CtxDone(ctx) THEN CtxErr(ctx) ELSE "live"

\* All(ctx, promises) up to the first loop: the derived context, out, errc.
AllCall ==
    /\ all.pc = "idle"
    /\ \E ctx \in CtxStates :
          all' = [all EXCEPT !.pc = IF Len(promises) = 0 THEN "drain" ELSE "spawn",
                             !.ctx = ctx,
                             !.dctx = WithCancel(ctx),
                             !.out = [k \in 1..Len(promises) |-> Zero],
                             !.errc = <<>>,
                             !.i = 0]
    /\ waiters' = [k \in 1..Len(promises) |-> [pc |-> "unspawned", err |-> Nil]]
    /\ UNCHANGED <<promises, fn, settlers, panicked, clients>>

\* for i := range out { go waiter(i, promises[i]) }  (all.i counts from 0)
AllSpawn ==
    /\ all.pc = "spawn"
    /\ waiters' = [waiters EXCEPT ![all.i + 1].pc = "Await"]
    /\ all' = [all EXCEPT !.i = IF all.i + 1 = Len(all.out) THEN 0 ELSE all.i + 1,
                          !.pc = IF all.i + 1 = Len(all.out) THEN "drain" ELSE "spawn"]
    /\ UNCHANGED <<promises, fn, settlers, panicked, clients>>

\* Mutant: the waiters get a context that is no child of the caller's.
AllCtxFireNotPropagated ==
    /\ all.pc \in {"spawn", "drain", "cancel", "return"}
    /\ all.ctx = "active"
    /\ \E e \in CtxErrs :
          all' = [all EXCEPT !.ctx = e]
    /\ UNCHANGED <<promises, fn, settlers, panicked, clients, waiters>>

\* The caller's context fires while All runs; the derived context fires with it.
AllCtxFire ==
    /\ all.pc \in {"spawn", "drain", "cancel", "return"}
    /\ all.ctx = "active"
    /\ \E e \in CtxErrs :
          all' = [all EXCEPT !.ctx = e, !.dctx = Cancelled(all.dctx, e)]
    /\ UNCHANGED <<promises, fn, settlers, panicked, clients, waiters>>

\* waiter: p.Await(ctx) on a syncPromise, the select
WaiterSelect(k) ==
    /\ waiters[k].pc = "Await"
    /\ promises[k].type = "syncPromise"
    /\ \E case \in ReadyCases(promises[k], all.dctx) :
          waiters' = [waiters EXCEPT ![k].pc = case]
    /\ UNCHANGED <<promises, fn, settlers, panicked, clients, all>>

\* out[i], err = (zerov, ctx.Err())
WaiterCtx(k) ==
    /\ waiters[k].pc = "ctx"
    /\ all' = [all EXCEPT !.out[k] = AwaitCtxReturn(all.dctx).value]
    /\ waiters' = [waiters EXCEPT ![k].pc = "send",
                                  ![k].err = AwaitCtxReturn(all.dctx).err]
    /\ UNCHANGED <<promises, fn, settlers, panicked, clients>>

\* Mutant: the value goes to the next free slot, in order of completion.
WaiterDoneInArrivalOrder(k) ==
    LET slot == Cardinality({j \in DOMAIN waiters : waiters[j].pc \in {"send", "exit"}}) + 1 IN
    /\ waiters[k].pc = "done"
    /\ all' = [all EXCEPT !.out[slot] = AwaitDoneReturn(promises[k]).value]
    /\ waiters' = [waiters EXCEPT ![k].pc = "send",
                                  ![k].err = AwaitDoneReturn(promises[k]).err]
    /\ UNCHANGED <<promises, fn, settlers, panicked, clients>>

\* out[i], err = (s.result.value, s.result.err)
WaiterDone(k) ==
    /\ waiters[k].pc = "done"
    /\ all' = [all EXCEPT !.out[k] = AwaitDoneReturn(promises[k]).value]
    /\ waiters' = [waiters EXCEPT ![k].pc = "send",
                                  ![k].err = AwaitDoneReturn(promises[k]).err]
    /\ UNCHANGED <<promises, fn, settlers, panicked, clients>>

\* out[i], err = p.Await(ctx) on an rp
WaiterRp(k) ==
    /\ waiters[k].pc = "Await"
    /\ promises[k].type = "rp"
    /\ all' = [all EXCEPT !.out[k] = RpAwait(promises[k], all.dctx).value]
    /\ waiters' = [waiters EXCEPT ![k].pc = "send",
                                  ![k].err = RpAwait(promises[k], all.dctx).err]
    /\ UNCHANGED <<promises, fn, settlers, panicked, clients>>

\* Mutant: errc is unbuffered, a send goes through only to a receiving All.
WaiterSendUnbuffered(k) ==
    /\ waiters[k].pc = "send"
    /\ all.pc = "drain" /\ all.i < Len(all.out) /\ all.errc = <<>>
    /\ all' = [all EXCEPT !.errc = Append(@, waiters[k].err)]
    /\ waiters' = [waiters EXCEPT ![k].pc = "exit"]
    /\ UNCHANGED <<promises, fn, settlers, panicked, clients>>

\* errc <- err: errc has capacity len(out)
WaiterSend(k) ==
    /\ waiters[k].pc = "send"
    /\ Len(all.errc) < Len(all.out)
    /\ all' = [all EXCEPT !.errc = Append(@, waiters[k].err)]
    /\ waiters' = [waiters EXCEPT ![k].pc = "exit"]
    /\ UNCHANGED <<promises, fn, settlers, panicked, clients>>

\* Mutant: a non-nil error is remembered and the loop goes on to the next result.
AllRecvKeepsDraining ==
    /\ all.pc = "drain"
    /\ all.i < Len(all.out)
    /\ all.errc # <<>>
    /\ all' = [all EXCEPT !.errc = Tail(@),
                          !.err = IF all.err # Nil THEN @ ELSE Head(all.errc),
                          !.pc = IF all.i + 1 = Len(all.out)
                                    /\ (all.err # Nil \/ Head(all.errc) # Nil)
                                 THEN "cancel" ELSE "drain",
                          !.i = IF all.i + 1 = Len(all.out)
                                   /\ (all.err # Nil \/ Head(all.errc) # Nil)
                                THEN @ ELSE @ + 1]
    /\ UNCHANGED <<promises, fn, settlers, panicked, clients, waiters>>

\* for i := 0; i < len(out); i++ { if err := <-errc; err != nil { ... } }
AllRecv ==
    /\ all.pc = "drain"
    /\ all.i < Len(all.out)
    /\ all.errc # <<>>
    /\ all' = [all EXCEPT !.errc = Tail(@),
                          !.err = Head(all.errc),
                          !.pc = IF Head(all.errc) # Nil THEN "cancel" ELSE "drain",
                          !.i = IF Head(all.errc) # Nil THEN @ ELSE @ + 1]
    /\ UNCHANGED <<promises, fn, settlers, panicked, clients, waiters>>

\* Mutant: cancel() also rejects the input promises that are still pending.
AllCancelRejectsPending ==
    /\ all.pc = "cancel"
    /\ all' = [all EXCEPT !.pc = "return", !.dctx = Cancelled(@, "Canceled")]
    /\ promises' = [k \in DOMAIN promises |->
          IF promises[k].type = "syncPromise" /\ promises[k].settled = 0
          THEN [promises[k] EXCEPT !.settled = 1, !.done = "closed",
                                   !.result = ErrResult("Canceled")]
          ELSE promises[k]]
    /\ UNCHANGED <<fn, settlers, panicked, clients, waiters>>

\* cancel()
AllCancel ==
    /\ all.pc = "cancel"
    /\ all' = [all EXCEPT !.pc = "return", !.dctx = Cancelled(@, "Canceled")]
    /\ UNCHANGED <<promises, fn, settlers, panicked, clients, waiters>>

\* return nil, err  (and the deferred cancel())
AllReturnErr ==
    /\ all.pc = "return"
    /\ all' = [all EXCEPT !.pc = "returned",
                          !.ret = [isNil |-> TRUE, vals |-> <<>>, err |-> all.err],
                          !.dctx = Cancelled(@, "Canceled")]
    /\ UNCHANGED <<promises, fn, settlers, panicked, clients, waiters>>

\* Mutant: All looks at its context before it returns the values.
AllReturnOutChecksCtx ==
    /\ all.pc = "drain"
    /\ all.i >= Len(all.out)
    /\ all' = [all EXCEPT !.pc = "returned",
                          !.ret = IF all.dctx = "live"
                                  THEN [isNil |-> FALSE, vals |-> all.out, err |-> Nil]
                                  ELSE [isNil |-> TRUE, vals |-> <<>>, err |-> all.dctx],
                          !.dctx = Cancelled(@, "Canceled")]
    /\ UNCHANGED <<promises, fn, settlers, panicked, clients, waiters>>

\* Mutant: the loop runs while i <= len(out), one receive too many.
AllReturnOutOneTooMany ==
    /\ all.pc = "drain"
    /\ all.i > Len(all.out)
    /\ all' = [all EXCEPT !.pc = "returned",
                          !.ret = [isNil |-> FALSE, vals |-> all.out, err |-> Nil],
                          !.dctx = Cancelled(@, "Canceled")]
    /\ UNCHANGED <<promises, fn, settlers, panicked, clients, waiters>>

\* return out, nil  (and the deferred cancel())
AllReturnOut ==
    /\ all.pc = "drain"
    /\ all.i >= Len(all.out)
    /\ all' = [all EXCEPT !.pc = "returned",
                          !.ret = [isNil |-> FALSE, vals |-> all.out, err |-> Nil],
                          !.dctx = Cancelled(@, "Canceled")]
    /\ UNCHANGED <<promises, fn, settlers, panicked, clients, waiters>>

NextAll ==
    \/ \E s \in DOMAIN settlers : FnReturn(s)
    \/ \E s \in DOMAIN settlers : SettleCAS(s)
    \/ \E s \in DOMAIN settlers : SettleStore(s)
    \/ \E s \in DOMAIN settlers : SettleClose(s)
    \/ AllCall
    \/ AllSpawn
    \/ AllCtxFire
    \/ \E k \in DOMAIN waiters : WaiterSelect(k)
    \/ \E k \in DOMAIN waiters : WaiterCtx(k)
    \/ \E k \in DOMAIN waiters : WaiterDone(k)
    \/ \E k \in DOMAIN waiters : WaiterRp(k)
    \/ \E k \in DOMAIN waiters : WaiterSend(k)
    \/ AllRecv
    \/ AllCancel
    \/ AllReturnErr
    \/ AllReturnOut

SpecAll == InitAll /\ [][NextAll]_vars

\* All over at most NAwaitInputs promises, and one more goroutine that calls
\* Await and Settled on them before, during and after the call of All.
InitAllAwait == InputPromises(NAwaitInputs) /\ clients = <<IdleClient>>

NextAllAwait ==
    \/ NextAll
    \/ \E c \in DOMAIN clients : Call(c)
    \/ \E c \in DOMAIN clients : CtxFire(c)
    \/ \E c \in DOMAIN clients : CallSettled(c)
    \/ \E c \in DOMAIN clients : AwaitSelect(c)
    \/ \E c \in DOMAIN clients : AwaitCtx(c)
    \/ \E c \in DOMAIN clients : AwaitDone(c)
    \/ \E c \in DOMAIN clients : AwaitRp(c)

SpecAllAwait == InitAllAwait /\ [][NextAllAwait]_vars

\* All runs in the caller's goroutine and the waiters in goroutines of their
\* own; the scheduler runs each of them when it can go on. Nothing makes the
\* caller's context fire.
AllStep == AllSpawn \/ AllRecv \/ AllCancel \/ AllReturnErr \/ AllReturnOut
WaiterStep(k) ==
    /\ k \in DOMAIN waiters
    /\ (WaiterSelect(k) \/ WaiterCtx(k) \/ WaiterDone(k) \/ WaiterRp(k) \/ WaiterSend(k))

FairnessAll ==
    /\ \A s \in 1..NFairInputs : WF_vars(GoroutineStep(s))
    /\ \A k \in 1..NFairInputs : WF_vars(WaiterStep(k))
    /\ WF_vars(AllStep)

\* At most NFairWork of the input promises have a function that returns.
InitFairAll ==
    /\ InputPromises(NFairInputs)
    /\ Cardinality({k \in SyncIds(promises) : fn[k].returns}) <= NFairWork
    /\ clients = <<>>

FairSpecAll == InitFairAll /\ [][NextAll]_vars /\ FairnessAll

\* ================================================================ properties
\* The work-backed promises, and what Await must deliver for each: the result
\* NewPromise's goroutine is to store for the function's return values.
SyncPromises == SyncIds(promises)
Outcome(p) == IF fn[p].err # Nil THEN [value |-> Zero, err |-> fn[p].err]
                                 ELSE [value |-> fn[p].value, err |-> Nil]

\* ---- C1 (SpecSettle)
Winners == {s \in DOMAIN settlers : settlers[s].swapped = "true"}
Called(s) == StoredResult(settlers[s].op, settlers[s].v, settlers[s].err)

C1_StateOk ==
    /\ Cardinality(Winners) <= 1
    /\ (\A s \in DOMAIN settlers : settlers[s].swapped # "none") => Cardinality(Winners) = 1
    /\ ~panicked
    /\ Winners = {} => promises[1] = NewSyncPromise
    /\ \A s \in Winners : settlers[s].pc \in {"close", "exit"} => promises[1].result = Called(s)
    /\ promises[1].done = "closed" <=> \E s \in Winners : settlers[s].pc = "exit"

C1_StepOk ==
    /\ \A s \in DOMAIN settlers :
          (settlers[s].pc = "cas" /\ settlers'[s].swapped = "false") => promises' = promises
    /\ \A s \in DOMAIN settlers :
          (settlers'[s] # settlers[s] /\ settlers[s].pc # "cas") => s \in Winners
    /\ (\E s \in Winners : settlers[s].pc \in {"close", "exit"})
          => promises'[1].result = promises[1].result
    /\ promises[1].done = "closed" => promises' = promises

\* C1: of N concurrent resolve/reject calls on a pending promise exactly one
\* performs the pending->settled transition; it alone stores its result and closes
\* done, once (no close of a closed channel); every other call changes nothing;
\* and a stored result never changes afterwards.
C1_ExactlyOnceSettlement == [] C1_StateOk /\ [][C1_StepOk]_vars

\* Three calls are over: a reject won, resolves with other arguments lost.
C1_Witness ==
    /\ \A s \in DOMAIN settlers : settlers[s].pc = "exit"
    /\ \E w \in Winners : settlers[w].op = "reject" /\ promises[1].result = Called(w)
    /\ Cardinality({s \in DOMAIN settlers : settlers[s].swapped = "false"}) >= 2
    /\ \E s \in DOMAIN settlers : settlers[s].op = "resolve" /\ settlers[s].v # Zero
    /\ promises[1].done = "closed"

\* ---- C2 (Spec)
\* C2: every Await that returns through the completion case returns the same
\* pair, the backing function's outcome; a caller past the receive from done
\* finds the result already stored.
C2_MultiReaderConsistency ==
    /\ \A c \in DOMAIN clients :
          (clients[c].pc = "done" /\ clients[c].p \in SyncPromises)
             => /\ fn[clients[c].p].returns
                /\ promises[clients[c].p].result = Outcome(clients[c].p)
    /\ \A c \in DOMAIN clients :
          (clients[c].pc = "returned" /\ clients[c].last = "done")
             => clients[c].ret = Outcome(clients[c].p)
    /\ \A c, d \in DOMAIN clients :
          (/\ clients[c].pc = "returned" /\ clients[c].last = "done"
           /\ clients[d].pc = "returned" /\ clients[d].last = "done"
           /\ clients[c].p = clients[d].p)
             => clients[c].ret = clients[d].ret

\* Two callers have returned through the completion case, both with the pair of
\* a function that returned a non-zero value.
C2_Witness ==
    \E c, d \in DOMAIN clients :
        /\ c # d
        /\ clients[c].pc = "returned" /\ clients[c].last = "done"
        /\ clients[d].pc = "returned" /\ clients[d].last = "done"
        /\ clients[c].p = clients[d].p
        /\ clients[c].ret = clients[d].ret
        /\ clients[c].ret.value # Zero

\* ---- C3 (Spec)
AwaitInProgress(c) == clients[c].pc \in {"Await", "ctx", "done"}

C3_StateOk ==
    \* only the goroutine's own compare-and-swap marks a promise settled
    /\ \A p \in SyncPromises :
          promises[p].settled = 1 => settlers[p].pc \in {"store", "close", "exit"}
    /\ \A c \in DOMAIN clients :
          (clients[c].pc = "returned" /\ clients[c].last = "ctx")
             => clients[c].ret.value = Zero /\ clients[c].ret.err \in CtxErrs

C3_StepOk ==
    \* a select evaluated with the context fired and done not closed takes the
    \* context case, and that case returns (zero value, ctx.Err())
    /\ \A c \in DOMAIN clients :
          (/\ clients[c].pc = "Await" /\ clients'[c] # clients[c]
           /\ promises[clients[c].p].type = "syncPromise"
           /\ CtxDone(clients[c].ctx)
           /\ promises[clients[c].p].done = "open")
             => clients'[c].pc = "ctx"
    /\ \A c \in DOMAIN clients :
          (clients[c].pc = "ctx" /\ clients'[c] # clients[c])
             => /\ clients'[c].pc = "returned"
                /\ clients'[c].ret = [value |-> Zero, err |-> clients[c].ctx]
    \* no step of an Await call changes a promise
    /\ (\E c \in DOMAIN clients : AwaitInProgress(c) /\ clients'[c] # clients[c])
          => promises' = promises

\* C3: an Await on a work-backed promise whose select runs with the context
\* already fired and done not yet closed returns (zero value, the context's
\* error); no step of any Await changes settled, done or result; the settled flag
\* is only ever set by the backing goroutine.
C3_CancellationNonMutation == [] C3_StateOk /\ [][C3_StepOk]_vars

\* A cancelled Await has returned and the promise is untouched: still pending.
C3_Witness ==
    \E c \in DOMAIN clients :
        /\ clients[c].pc = "returned" /\ clients[c].last = "ctx"
        /\ clients[c].ret = [value |-> Zero, err |-> "DeadlineExceeded"]
        /\ promises[clients[c].p] = NewSyncPromise
        /\ settlers[clients[c].p].pc = "fn"

\* ---- C4 (Spec)
\* C4: in every state of a work-backed promise Settled() is true iff done is
\* closed.
C4_SettledIffPublished ==
    \A p \in SyncPromises : Settled(promises[p]) <=> promises[p].done = "closed"

\* ---- C5 (Spec)
\* C5: an Await made after Settled() returned true neither blocks nor takes the
\* context case, whatever the context.
C5_SettledThenAwaitImmediate ==
    \A c \in DOMAIN clients :
        clients[c].last = "true" =>
            /\ clients[c].pc # "ctx"
            /\ clients[c].pc = "Await" =>
                  \/ promises[clients[c].p].type = "rp"
                  \/ "done" \in ReadyCases(promises[clients[c].p], clients[c].ctx)

\* ---- C8 (Spec)
C8_StateOk ==
    /\ \A p \in SyncPromises : promises[p].done = "closed" => promises[p].settled = 1
    /\ \A c \in DOMAIN clients :
          (clients[c].last = "done" /\ clients[c].pc \in {"returned", "Settled"})
             => Settled(promises[clients[c].p])

C8_StepOk ==
    /\ \A p \in SyncPromises : Settled(promises[p]) => Settled(promises'[p])
    /\ \A c \in DOMAIN clients :
          (clients[c].pc = "Settled" /\ clients[c].last = "done" /\ clients'[c] # clients[c])
             => clients'[c].last = "true"

\* C8: done closed implies the settled flag is set; Settled() never goes back
\* from true to false; a Settled() call made after Await returned the stored
\* result returns true.
C8_ResultReturnedImpliesSettled == [] C8_StateOk /\ [][C8_StepOk]_vars

\* Await has returned the stored result and the same caller's Settled() call is
\* in progress.
C8_Witness ==
    \E c \in DOMAIN clients :
        /\ clients[c].pc = "Settled" /\ clients[c].last = "done"
        /\ clients[c].p \in SyncPromises
        /\ Settled(promises[clients[c].p])

\* ---- C9 (Spec)
RpPromises == {p \in DOMAIN promises : promises[p].type = "rp"}

\* C9: a promise from Resolve(v) / Reject(e) is settled from construction on,
\* holds (v, nil) / (zero value, e), and its Await returns that pair for every
\* context without blocking and without ever returning the context's error.
C9_PreSettled ==
    /\ \A p \in RpPromises :
          /\ Settled(promises[p])
          /\ promises[p].result.err = Nil \/ promises[p].result.value = Zero
    /\ \A c \in DOMAIN clients : clients[c].p \in RpPromises =>
          /\ clients[c].last \in {"none", "true", "rp"}
          /\ clients[c].pc \in {"idle", "Await", "Settled", "returned"}
          /\ clients[c].pc = "Await" => ENABLED AwaitRp(c)
          /\ (clients[c].pc = "returned" /\ clients[c].last = "rp")
                => clients[c].ret = promises[clients[c].p].result

\* Await with an already fired context has returned the error of Reject(e).
C9_Witness ==
    \E c \in DOMAIN clients :
        /\ clients[c].p \in RpPromises
        /\ clients[c].pc = "returned" /\ clients[c].last = "rp"
        /\ clients[c].ctx = "Canceled"
        /\ clients[c].ret = [value |-> Zero, err |-> "darn"]

\* ---- C6 (FairSpec)
\* C6: after an Await returned a cancellation error, the backing work (when fn
\* returns) still settles the promise with fn's outcome, a later Await with a
\* context that never fires returns that outcome, and no Await that returns
\* through the completion case returns anything else.
C6_CancelledWaitKeepsOutcome ==
    /\ \A c \in 1..NFairClients :
          (/\ clients[c].last = "ctx"
           /\ clients[c].p \in SyncPromises /\ fn[clients[c].p].returns)
          ~> (/\ clients[c].p \in SyncPromises
              /\ settlers[clients[c].p].pc = "exit"
              /\ promises[clients[c].p].done = "closed"
              /\ promises[clients[c].p].result = Outcome(clients[c].p))
    /\ \A c \in 1..NFairClients :
          (/\ clients[c].pc = "Await" /\ clients[c].last = "ctx"
           /\ clients[c].ctx = "background"
           /\ clients[c].p \in SyncPromises /\ fn[clients[c].p].returns)
          ~> (/\ clients[c].pc = "returned" /\ clients[c].last = "done"
              /\ clients[c].ret = Outcome(clients[c].p))
    /\ [](\A c \in 1..NFairClients :
            (clients[c].pc = "returned" /\ clients[c].last = "done"
             /\ clients[c].p \in SyncPromises)
               => clients[c].ret = Outcome(clients[c].p))

\* The caller's previous Await was cancelled; its next one, with a context that
\* never fires, has received from done and finds fn's (1, nil) stored.
C6_Witness ==
    \E c \in DOMAIN clients :
        /\ clients[c].pc = "done" /\ clients[c].last = "ctx"
        /\ clients[c].ctx = "background"
        /\ clients[c].p \in SyncPromises
        /\ promises[clients[c].p].result = [value |-> 1, err |-> Nil]
        /\ promises[clients[c].p].result = Outcome(clients[c].p)

\* ---- C7 (FairSpec)
\* C7: when fn returns, the promise eventually settles, and an Await whose
\* context never fires eventually returns fn's outcome: (v, nil) or fn's error.
C7_AwaitLiveness ==
    /\ (1 \in SyncPromises /\ fn[1].returns)
          => <>(/\ 1 \in SyncPromises
                /\ Settled(promises[1]) /\ promises[1].done = "closed"
                /\ promises[1].result = Outcome(1))
    /\ \A c \in 1..NFairClients :
          (/\ clients[c].pc = "Await" /\ clients[c].ctx = "background"
           /\ clients[c].p \in SyncPromises /\ fn[clients[c].p].returns)
          ~> (/\ clients[c].pc = "returned" /\ clients[c].last = "done"
              /\ clients[c].ret = Outcome(clients[c].p))


\* Await with context.Background() has returned the error fn returned.
C7_Witness ==
    \E c \in DOMAIN clients :
        /\ clients[c].pc = "returned" /\ clients[c].last = "done"
        /\ clients[c].ctx = "background"
        /\ clients[c].p \in SyncPromises
        /\ fn[clients[c].p].err = "darn"
        /\ clients[c].ret = [value |-> Zero, err |-> "darn"]

\* ---- C10 (SpecAll)
\* What promise k holds once it has settled successfully; no value otherwise.
SucceededWith(k, v) ==
    IF promises[k].type = "rp"
    THEN promises[k].result = [value |-> v, err |-> Nil]
    ELSE /\ promises[k].done = "closed"
         /\ promises[k].result = [value |-> v, err |-> Nil]
         /\ Outcome(k) = [value |-> v, err |-> Nil]

\* C10: when All returns a nil error, the values are a sequence of length N
\* whose slot k is the value of promise k, and every input promise has settled
\* successfully.
C10_AllOrdering ==
    (all.pc = "returned" /\ all.ret.err = Nil) =>
        /\ ~all.ret.isNil
        /\ Len(all.ret.vals) = Len(promises)
        /\ \A k \in 1..Len(promises) : SucceededWith(k, all.ret.vals[k])

\* All has returned <<1, 2>> over two work-backed promises.
C10_Witness ==
    /\ all.pc = "returned" /\ all.ret.err = Nil
    /\ Len(promises) = 2
    /\ \A k \in 1..Len(promises) : promises[k].type = "syncPromise"
    /\ all.ret.vals = <<1, 2>>

\* ---- C11, C12, C14, C16 (FairSpecAll)
\* The error input promise k rejects with; Nil when it resolves or never settles.
RejectsWith(k) == IF promises[k].type = "rp" THEN promises[k].result.err ELSE fn[k].err
Rejecters == {k \in DOMAIN promises : RejectsWith(k) # Nil}
\* The input promises that never settle.
NeverSettling == {k \in SyncPromises : ~fn[k].returns}
\* The value input promise k resolves with.
ResolvesWith(k) == IF promises[k].type = "rp" THEN promises[k].result.value ELSE fn[k].value
AllRunning == all.pc \in {"spawn", "drain", "cancel", "return"}
AllReturned == all.pc = "returned"
ReturnedErr(e) == AllReturned /\ all.ret = [isNil |-> TRUE, vals |-> <<>>, err |-> e]

\* C11: when exactly one input promise rejects, with error e, and the caller's
\* context never fires, All eventually returns (nil, e), whether or not the
\* other promises ever settle.
OnlyRejecter == CHOOSE k \in Rejecters : TRUE
C11_AllShortCircuit ==
    (AllRunning /\ ~CtxDone(all.ctx) /\ Cardinality(Rejecters) = 1)
        ~> \/ CtxDone(all.ctx)
           \/ Cardinality(Rejecters) = 1 /\ ReturnedErr(RejectsWith(OnlyRejecter))

\* All has returned the error of promise 1 while promise 2, which never
\* settles, is pending and its waiter has not come back from Await.
C11_Witness ==
    /\ Len(promises) = 2 /\ Rejecters = {1} /\ NeverSettling = {2}
    /\ ~CtxDone(all.ctx)
    /\ ReturnedErr(RejectsWith(1))
    /\ waiters[2].pc = "Await"

\* C12: when every input promise settles successfully and the caller's context
\* does not fire before All returns, All eventually returns the N values with
\* a nil error.
AllSucceed == Rejecters = {} /\ NeverSettling = {}
C12_AllSuccess ==
    (AllRunning /\ ~CtxDone(all.ctx) /\ AllSucceed)
        ~> \/ CtxDone(all.ctx)
           \/ /\ AllReturned
              /\ all.ret = [isNil |-> FALSE,
                            vals |-> [k \in 1..Len(promises) |-> ResolvesWith(k)],
                            err |-> Nil]

\* All has returned <<1, 2>> and nil over a work-backed promise and a resolved
\* one, the caller's context being one that can fire and has not.
C12_Witness ==
    /\ Len(promises) = 2 /\ SyncPromises = {1} /\ AllSucceed
    /\ all.ctx = "active"
    /\ AllReturned /\ all.ret = [isNil |-> FALSE, vals |-> <<1, 2>>, err |-> Nil]

\* Some input promise has not published its completion.
SomePending == \E k \in SyncPromises : promises[k].done = "open"

\* C14: whenever the caller's context fires, during the call, while an input
\* promise is pending, All eventually returns nil values and a non-nil error.
C14_CancelAlwaysFails ==
    [](all.ctx = "active" =>
        []((AllRunning /\ CtxDone(all.ctx) /\ SomePending)
             => <>(AllReturned /\ all.ret.isNil /\ all.ret.err # Nil)))

\* C14, as the code has it: once the caller's context has fired, All returns
\* and every waiter comes back from Await and runs to its end; when an input
\* promise never settles, what All returns is nil values and a non-nil error;
\* and a non-nil error returned when no input promise rejects is the error of
\* the caller's context, which has fired.
C14_ParentCancellation ==
    /\ [](AllReturned /\ NeverSettling # {} => all.ret.isNil /\ all.ret.err # Nil)
    /\ []((AllReturned /\ all.ret.err # Nil /\ Rejecters = {})
            => CtxDone(all.ctx) /\ all.ret.err = CtxErr(all.ctx))
    /\ (AllRunning /\ CtxDone(all.ctx))
          ~> (AllReturned /\ \A k \in DOMAIN waiters : waiters[k].pc = "exit")

\* The caller's deadline passed while promise 1, which never settles, was
\* pending and promise 2 was not: All returned (nil, DeadlineExceeded), the
\* waiter of promise 1 left Await with that error.
C14_Witness ==
    /\ Len(promises) = 2 /\ NeverSettling = {1} /\ Rejecters = {}
    /\ all.ctx = "DeadlineExceeded"
    /\ ReturnedErr("DeadlineExceeded")
    /\ waiters[1] = [pc |-> "exit", err |-> "DeadlineExceeded"]
    /\ waiters[2] = [pc |-> "exit", err |-> Nil]

\* C16: once All has returned, every waiter runs to its end: the derived
\* context has fired, no send on errc ever blocks.
C16_NoStuckWaiter ==
    /\ [](AllReturned => all.dctx # "live")
    /\ [](\A k \in DOMAIN waiters : waiters[k].pc = "send" => ENABLED WaiterSend(k))
    /\ AllReturned ~> (\A k \in DOMAIN waiters : waiters[k].pc = "exit")

\* All returned an error while the waiter of a promise that never settles was
\* in Await; that waiter has since left through the derived context.
C16_Witness ==
    /\ AllReturned /\ all.ret.err # Nil
    /\ \E k \in NeverSettling : waiters[k].pc = "exit" /\ all.out[k] = Zero
    /\ \A k \in DOMAIN waiters : waiters[k].pc = "exit"

\* ---- C13, C15 (SpecAll)
\* C13: All over no promise spawns no waiter, has nothing to receive, and
\* returns an empty, non-nil sequence and a nil error as its next step,
\* whatever the state of the caller's context.
C13_AllEmpty ==
    (Len(promises) = 0 /\ all.pc # "idle") =>
        /\ waiters = <<>>
        /\ all.pc \in {"drain", "returned"}
        /\ all.pc = "drain" =>
              ENABLED AllReturnOut /\ ~ENABLED AllRecv /\ ~ENABLED AllSpawn
        /\ all.pc = "returned" =>
              all.ret = [isNil |-> FALSE, vals |-> <<>>, err |-> Nil]

\* All, called over no promise with a cancelled context, has returned the
\* empty sequence and nil.
C13_Witness ==
    /\ Len(promises) = 0
    /\ all.ctx = "Canceled" /\ all.dctx = "Canceled"
    /\ AllReturned /\ all.ret = [isNil |-> FALSE, vals |-> <<>>, err |-> Nil]

\* The errors of the input promises that have rejected.
PublishedErrs ==
    {promises[k].result.err :
        k \in {j \in DOMAIN promises :
                  promises[j].type = "rp" \/ promises[j].done = "closed"}} \ {Nil}

C15_StateOk ==
    \* every result drained so far was nil; the derived context has not been
    \* cancelled by All itself
    /\ all.pc \in {"spawn", "drain"} =>
          /\ all.err = Nil
          /\ all.dctx = IF CtxDone(all.ctx) THEN CtxErr(all.ctx) ELSE "live"
    /\ all.pc \in {"cancel", "return"} =>
          /\ all.err # Nil
          /\ all.err \in PublishedErrs \/ (CtxDone(all.ctx) /\ all.err = CtxErr(all.ctx))
    /\ (AllReturned /\ all.ret.err # Nil) =>
          /\ all.ret.isNil /\ all.ret.vals = <<>>
          /\ all.ret.err = all.err
          /\ all.ret.err \in PublishedErrs
                \/ (CtxDone(all.ctx) /\ all.ret.err = CtxErr(all.ctx))
    /\ (AllReturned /\ ~CtxDone(all.ctx)) => all.ret.err \notin CtxErrs

C15_StepOk ==
    \* the error All goes on to return is the non-nil result it has just drained
    /\ (all.pc = "drain" /\ all'.pc = "cancel") =>
          /\ all.errc # <<>> /\ all'.err = Head(all.errc) /\ all'.errc = Tail(all.errc)
    \* and All receives nothing more
    /\ all.pc \in {"cancel", "return", "returned"} =>
          /\ all'.err = all.err
          /\ Len(all'.errc) >= Len(all.errc)
    \* the caller's context does not fire once All has returned
    /\ AllReturned => all'.ctx = all.ctx

\* C15: an error All returns comes with nil values, is the first non-nil
\* result All drained, and is the error of an input promise that rejected or
\* the error of the caller's context, which has fired; the derived context is
\* cancelled by All only after that result was drained, so without the
\* caller's context firing All returns no context error.
C15_ErrorProvenance == []C15_StateOk /\ [][C15_StepOk]_vars

\* The caller's context cannot fire. All returned the error of promise 2
\* while promise 1, which never settles, was pending; the waiter of promise 1
\* then left Await with the Canceled of the derived context and sent it.
C15_Witness ==
    /\ Len(promises) = 2 /\ NeverSettling = {1}
    /\ all.ctx = "background"
    /\ ReturnedErr(RejectionErr(2))
    /\ waiters[1] = [pc |-> "exit", err |-> "Canceled"]
    /\ all.errc = <<"Canceled">>

\* ---- C17, C18 (SpecAllAwait)
\* What the backing goroutine of work-backed promise p has made of it so far.
OwnWork(p) ==
    [type |-> "syncPromise",
     settled |-> IF settlers[p].pc \in {"fn", "cas"} THEN 0 ELSE 1,
     done |-> IF settlers[p].pc = "exit" THEN "closed" ELSE "open",
     result |-> IF settlers[p].pc \in {"close", "exit"} THEN Outcome(p) ELSE ZeroResult]

C17_StateOk ==
    \* a work-backed promise is what its own goroutine has made of it, and one
    \* whose work has not completed is pending; the work can always go on
    /\ \A p \in SyncPromises :
          /\ promises[p] = OwnWork(p)
          /\ (fn[p].returns /\ settlers[p].pc # "exit") => ENABLED GoroutineStep(p)
    /\ \A p \in RpPromises : promises[p] \in {Resolve(p), Reject(RejectionErr(p))}
    \* an Await that has returned with its context not fired returns the
    \* outcome of the promise's work
    /\ \A c \in DOMAIN clients :
          (clients[c].pc = "returned" /\ clients[c].last \in {"ctx", "done", "rp"}
             /\ ~CtxDone(clients[c].ctx)) =>
                /\ clients[c].last # "ctx"
                /\ clients[c].p \in SyncPromises =>
                      /\ clients[c].ret = Outcome(clients[c].p)
                      /\ settlers[clients[c].p].pc = "exit"
                /\ clients[c].p \in RpPromises =>
                      clients[c].ret = promises[clients[c].p].result

C17_StepOk ==
    \* no step of All or of a waiter touches a promise, its function or its goroutine
    /\ (all' # all \/ waiters' # waiters) =>
          promises' = promises /\ settlers' = settlers /\ fn' = fn
    /\ \A p \in RpPromises : promises'[p] = promises[p]

\* C17: All and its waiters, the early return and the derived cancel included,
\* change no input promise and do not stop its backing work: a work-backed
\* promise is at every moment what its own goroutine has made of it, so one
\* that is pending when All returns stays pending until its work completes, and
\* an Await that returns with a live context returns the outcome of that work.
C17_AllLeavesInputs == []C17_StateOk /\ [][C17_StepOk]_vars

\* All returned the caller's deadline error, its waiter having left Await
\* through the derived context; the promise's work then completed and a
\* later Await with a background context has returned (1, nil).
C17_Witness ==
    /\ Len(promises) = 1 /\ SyncPromises = {1}
    /\ ReturnedErr("DeadlineExceeded")
    /\ waiters[1] = [pc |-> "exit", err |-> "DeadlineExceeded"]
    /\ clients[1].pc = "returned" /\ clients[1].last = "done"
    /\ clients[1].ctx = "background"
    /\ clients[1].ret = [value |-> 1, err |-> Nil]

PcRank == [fn |-> 0, cas |-> 1, store |-> 2, close |-> 3, exit |-> 4]

C18_StateOk ==
    \* one goroutine per work-backed promise, none for the others
    /\ DOMAIN settlers = SyncPromises
    /\ \A s \in DOMAIN settlers :
          /\ settlers[s].p = s
          /\ settlers[s].op = "none" <=> settlers[s].pc = "fn"
          /\ settlers[s].swapped = "none" <=> settlers[s].pc \in {"fn", "cas"}
          /\ settlers[s].op \in {"none", "resolve", "reject"}

C18_StepOk ==
    /\ DOMAIN settlers' = DOMAIN settlers
    /\ \A s \in DOMAIN settlers :
          \* the goroutine never goes back: fn is not called again, and no second
          \* resolve or reject is called
          /\ PcRank[settlers'[s].pc] >= PcRank[settlers[s].pc]
          /\ settlers[s].op # "none" => settlers'[s].op = settlers[s].op
          /\ settlers[s].swapped # "none" => settlers'[s].swapped = settlers[s].swapped
    \* and no call of Await, Settled or All moves it
    /\ (clients' # clients \/ all' # all \/ waiters' # waiters) => settlers' = settlers

\* C18: the function of a work-backed promise is run once, by the one goroutine
\* NewPromise starts, which then calls resolve or reject, one of them and once,
\* whatever calls of Await, Settled and All are made or cancelled meanwhile.
C18_SingleExecution == []C18_StateOk /\ [][C18_StepOk]_vars

\* The function returned an error and the goroutine has run its one reject to
\* the end, while All returned on a cancelled context and a cancelled Await
\* and a call of Settled were made on the promise.
C18_Witness ==
    /\ Len(promises) = 1 /\ SyncPromises = {1}
    /\ settlers[1] = [p |-> 1, pc |-> "exit", op |-> "reject", v |-> Zero,
                       err |-> RejectionErr(1), swapped |-> "true"]
    /\ ReturnedErr("Canceled")
    /\ clients[1].pc = "returned" /\ clients[1].last = "true"

\* ---- C19 (Spec)
\* C19: a function that returns a non-nil error e, with whatever value, makes
\* the goroutine call reject, the promise hold (zero value, e) and every Await
\* that returns through the completion case return (zero value, e); one that
\* returns (v, nil) makes it call resolve and gives (v, nil) in the same way.
\* Value and error are never both set.
C19_ValueErrorExclusive ==
    /\ \A p \in SyncPromises :
          /\ settlers[p].pc # "fn" =>
                /\ fn[p].err # Nil => settlers[p].op = "reject"
                /\ fn[p].err = Nil => settlers[p].op = "resolve"
          /\ promises[p].done = "closed" =>
                /\ fn[p].err # Nil => promises[p].result = [value |-> Zero, err |-> fn[p].err]
                /\ fn[p].err = Nil => promises[p].result = [value |-> fn[p].value, err |-> Nil]
          /\ promises[p].result.value = Zero \/ promises[p].result.err = Nil
    /\ \A c \in DOMAIN clients :
          (clients[c].pc = "returned" /\ clients[c].last = "done") =>
             LET f == fn[clients[c].p] IN
             /\ f.err # Nil => clients[c].ret = [value |-> Zero, err |-> f.err]
             /\ f.err = Nil => clients[c].ret = [value |-> f.value, err |-> Nil]

\* The function returned (1, "darn"); two Awaits have returned (0, "darn").
C19_Witness ==
    /\ 1 \in SyncPromises
    /\ fn[1] = [returns |-> TRUE, value |-> 1, err |-> "darn"]
    /\ \A c \in DOMAIN clients :
          /\ clients[c].pc = "returned" /\ clients[c].last = "done"
          /\ clients[c].ret = [value |-> Zero, err |-> "darn"]

====
